---- MODULE Spec2Model ----
(***************************************************************************)
(* Software Factory backend API (backend/app/main.py).                     *)
(*                                                                         *)
(* The application object is configured once at import time (title,        *)
(* version, CORS middleware) and then serves four routes:                  *)
(*   GET  /health        health_check                                      *)
(*   GET  /api/version   get_version                                       *)
(*   GET  /api/hello     hello_world                                       *)
(*   POST /api/hello     hello_name(request: HelloRequest)                 *)
(* Requests are handled by coroutines that may interleave: a request is    *)
(* received, passes the CORS middleware, has its body bound to the         *)
(* handler's parameter model (or is rejected with 422), runs the handler   *)
(* and is answered.                                                        *)
(*                                                                         *)
(* Text that the program builds or inspects (names, messages, timestamps)  *)
(* is a sequence of one-character strings; opaque labels (status, version, *)
(* origins, paths) are strings.                                            *)
(***************************************************************************)
EXTENDS Naturals, Sequences, FiniteSets, TLC

VARIABLES
    pkg_version,  \* app.__version__, imported at main.py:22
    app,          \* the FastAPI application object and its CORS middleware
    pc,           \* per in-flight request: where its coroutine stands
    req,          \* per in-flight request: the HTTP request as received
    request,      \* per in-flight request: hello_name's bound parameter
    resp          \* per in-flight request: the HTTP response produced

vars == <<pkg_version, app, pc, req, request, resp>>

----------------------------------------------------------------------------
(* Bounds of the model *)

\* number of requests the server handles concurrently
MaxInFlight == 2

\* longest name sent to POST /api/hello
MaxNameLen == 2

\* the clock reads 0..MaxClock whole seconds after the epoch
MaxClock == 1

Slots == 1..MaxInFlight

\* characters a name is made of: a letter, and the punctuation mark that
\* also begins the greeting's suffix
Chars == {"B", "!"}

RECURSIVE SeqsUpTo(_)
SeqsUpTo(n) ==
    IF n = 0 THEN {<<>>}
    ELSE LET shorter == SeqsUpTo(n - 1)
         IN  shorter \cup {Append(s, c) : s \in {t \in shorter : Len(t) = n - 1}, c \in Chars}

Names == SeqsUpTo(MaxNameLen)

\* candidate values of the package's declared version
Versions == {"0.1.0", "1.0.0"}

----------------------------------------------------------------------------
(* Text helpers *)

\* Python's `needle in haystack` on str
Contains(haystack, needle) ==
    \E i \in 0..(Len(haystack) - Len(needle)) :
        SubSeq(haystack, i + 1, i + Len(needle)) = needle

Digit(n) ==
    CASE n = 0 -> "0" [] n = 1 -> "1" [] n = 2 -> "2" [] n = 3 -> "3" [] n = 4 -> "4"
      [] n = 5 -> "5" [] n = 6 -> "6" [] n = 7 -> "7" [] n = 8 -> "8" [] n = 9 -> "9"

\* datetime.now(timezone.utc).isoformat() for a clock reading of t whole
\* seconds (t < 60) after the epoch: "1970-01-01T00:00:SS+00:00"
IsoFormat(t) ==
    <<"1", "9", "7", "0", "-", "0", "1", "-", "0", "1", "T", "0", "0", ":", "0", "0", ":">>
    \o <<Digit(t \div 10), Digit(t % 10)>>
    \o <<"+", "0", "0", ":", "0", "0">>

----------------------------------------------------------------------------
(* HTTP requests *)

\* a request that carries no Origin header
NoOrigin == "none"

\* the origins listed in allow_origins
DeclaredOrigins == {"http://localhost:3000", "http://127.0.0.1:3000"}

\* origins a client may send: the declared ones and a foreign one
Origins == DeclaredOrigins \cup {"http://evil.example"}

\* the methods the CORS middleware expands allow_methods=["*"] to
ALL_METHODS == {"DELETE", "GET", "HEAD", "OPTIONS", "PATCH", "POST", "PUT"}

Paths == {"/health", "/api/version", "/api/hello"}

\* header lists a preflight may ask for (Access-Control-Request-Headers)
RequestHeaderLists == {"none", "content-type", "authorization, x-custom"}

\* JSON values a client may put in the name field
JsonNull == [type |-> "null"]
JsonString(s) == [type |-> "string", chars |-> s]

\* Bodies sent to POST /api/hello with Content-Type application/json: text
\* that is not JSON, a JSON value that is not an object, and JSON objects
\* without a name, with a null name and with a string name.
Bodies ==
    {[kind |-> "invalid"], [kind |-> "array"]}
    \cup {[kind |-> "object", fields |-> <<>>]}
    \cup {[kind |-> "object", fields |-> ("name" :> JsonNull)]}
    \cup {[kind |-> "object", fields |-> ("name" :> JsonString(n))] : n \in Names}

NoBody == [kind |-> "none"]

\* requests to the four declared routes, sent with an Origin header in O
RouteRequests(O) ==
    {[method |-> "GET", path |-> p, origin |-> o, body |-> NoBody,
      acr_method |-> "none", acr_headers |-> "none"] : p \in Paths, o \in O}
    \cup
    {[method |-> "POST", path |-> "/api/hello", origin |-> o, body |-> b,
      acr_method |-> "none", acr_headers |-> "none"] : b \in Bodies, o \in O}

\* CORS preflight requests: OPTIONS with Origin and
\* Access-Control-Request-Method, on any path
PreflightRequests ==
    {[method |-> "OPTIONS", path |-> p, origin |-> o, body |-> NoBody,
      acr_method |-> m, acr_headers |-> h] :
        p \in Paths, o \in Origins, m \in ALL_METHODS, h \in RequestHeaderLists}

NoRequest == [method |-> "none"]
NoModel == [bound |-> FALSE]
NoResponse == [status |-> 0]

----------------------------------------------------------------------------
(* Application object and CORS middleware configuration *)

\* CreateApp with the second development origin left out of allow_origins
CreateAppOneOrigin(v) ==
    [title |-> "Software Factory API",
     version |-> v,
     allow_origins |-> {"http://localhost:3000"},
     allow_credentials |-> TRUE,
     allow_methods |-> {"*"},
     allow_headers |-> {"*"}]

\* main.py:25-43: FastAPI(...) and add_middleware(CORSMiddleware, ...)
CreateApp(v) ==
    [title |-> "Software Factory API",
     version |-> v,
     allow_origins |-> {"http://localhost:3000", "http://127.0.0.1:3000"},
     allow_credentials |-> TRUE,
     allow_methods |-> {"*"},
     allow_headers |-> {"*"}]

AllowedMethods == IF "*" \in app.allow_methods THEN ALL_METHODS ELSE app.allow_methods

IsAllowedOrigin(o) == "*" \in app.allow_origins \/ o \in app.allow_origins

\* Headers the middleware adds to the response of a non-preflight request.
\* Without an Origin header the response is passed through untouched.
SimpleCorsHeaders(rq) ==
    IF rq.origin = NoOrigin THEN [allow_origin |-> "none", allow_credentials |-> FALSE]
    ELSE [allow_origin |-> IF IsAllowedOrigin(rq.origin) THEN rq.origin ELSE "none",
          allow_credentials |-> app.allow_credentials]

\* The middleware's answer to a preflight request.
PreflightResponse(rq) ==
    LET origin_ok == IsAllowedOrigin(rq.origin)
        method_ok == rq.acr_method \in AllowedMethods
        headers_ok == "*" \in app.allow_headers \/ rq.acr_headers = "none"
                      \/ rq.acr_headers \in app.allow_headers
    IN  [status |-> IF origin_ok /\ method_ok /\ headers_ok THEN 200 ELSE 400,
         body |-> [text |-> IF origin_ok /\ method_ok /\ headers_ok
                            THEN "OK" ELSE "Disallowed CORS"],
         cors |-> [allow_origin |-> IF origin_ok THEN rq.origin ELSE "none",
                   allow_credentials |-> app.allow_credentials,
                   allow_methods |-> AllowedMethods,
                   allow_headers |-> IF "*" \in app.allow_headers THEN rq.acr_headers
                                     ELSE "none"]]

----------------------------------------------------------------------------
(* Request model and handlers' return values *)

\* ValidateHelloRequest with the field declared `name: str = ""`
ValidateWithDefault(body) ==
    IF body.kind = "invalid" THEN [bound |-> FALSE, error |-> "json_invalid"]
    ELSE IF body.kind # "object" THEN [bound |-> FALSE, error |-> "model_attributes_type"]
    ELSE IF "name" \notin DOMAIN body.fields THEN [bound |-> TRUE, name |-> <<>>]
    ELSE IF body.fields["name"].type # "string" THEN [bound |-> FALSE, error |-> "string_type"]
    ELSE [bound |-> TRUE, name |-> body.fields["name"].chars]

\* ValidateHelloRequest with the field declared with min_length=1
ValidateNonEmpty(body) ==
    IF body.kind = "invalid" THEN [bound |-> FALSE, error |-> "json_invalid"]
    ELSE IF body.kind # "object" THEN [bound |-> FALSE, error |-> "model_attributes_type"]
    ELSE IF "name" \notin DOMAIN body.fields THEN [bound |-> FALSE, error |-> "missing"]
    ELSE IF body.fields["name"].type # "string" THEN [bound |-> FALSE, error |-> "string_type"]
    ELSE IF Len(body.fields["name"].chars) < 1 THEN [bound |-> FALSE, error |-> "string_too_short"]
    ELSE [bound |-> TRUE, name |-> body.fields["name"].chars]

\* ValidateHelloRequest with the field declared with max_length=1
ValidateMaxLen(body) ==
    IF body.kind = "invalid" THEN [bound |-> FALSE, error |-> "json_invalid"]
    ELSE IF body.kind # "object" THEN [bound |-> FALSE, error |-> "model_attributes_type"]
    ELSE IF "name" \notin DOMAIN body.fields THEN [bound |-> FALSE, error |-> "missing"]
    ELSE IF body.fields["name"].type # "string" THEN [bound |-> FALSE, error |-> "string_type"]
    ELSE IF Len(body.fields["name"].chars) > 1 THEN [bound |-> FALSE, error |-> "string_too_long"]
    ELSE [bound |-> TRUE, name |-> body.fields["name"].chars]

\* Binding the JSON body to `request: HelloRequest` (one required field,
\* name: str).  The result is the bound model or the validation failure.
ValidateHelloRequest(body) ==
    IF body.kind = "invalid" THEN [bound |-> FALSE, error |-> "json_invalid"]
    ELSE IF body.kind # "object" THEN [bound |-> FALSE, error |-> "model_attributes_type"]
    ELSE IF "name" \notin DOMAIN body.fields THEN [bound |-> FALSE, error |-> "missing"]
    ELSE IF body.fields["name"].type # "string" THEN [bound |-> FALSE, error |-> "string_type"]
    ELSE [bound |-> TRUE, name |-> body.fields["name"].chars]

\* ValidationErrorStatus with undecodable JSON reported as 400 Bad Request
ValidationErrorStatusBadRequest(error) == IF error = "json_invalid" THEN 400 ELSE 422

\* Status of the response that reports a request-validation failure
ValidationErrorStatus(error) == 422

\* FormatGreeting with punctuation stripped from the name
FormatGreetingSanitized(name) ==
    <<"H", "e", "l", "l", "o", ",", " ">>
    \o SelectSeq(name, LAMBDA c : c # "!")
    \o <<"!", " ", "W", "e", "l", "c", "o", "m", "e", " ", "t", "o", " ", "y", "o", "u", "r",
         " ", "S", "o", "f", "t", "w", "a", "r", "e", " ", "F", "a", "c", "t", "o", "r", "y", ".">>

\* f"Hello, {request.name}! Welcome to your Software Factory."
FormatGreeting(name) ==
    <<"H", "e", "l", "l", "o", ",", " ">>
    \o name
    \o <<"!", " ", "W", "e", "l", "c", "o", "m", "e", " ", "t", "o", " ", "y", "o", "u", "r",
         " ", "S", "o", "f", "t", "w", "a", "r", "e", " ", "F", "a", "c", "t", "o", "r", "y", ".">>

\* HealthPayload reporting on validation failures of requests in flight
HealthPayloadTracksErrors(t) ==
    [status |-> IF \E q \in Slots : resp[q].status = 422 THEN "degraded" ELSE "healthy",
     timestamp |-> IsoFormat(t)]

\* the dict health_check returns
HealthPayload(t) == [status |-> "healthy", timestamp |-> IsoFormat(t)]

\* VersionPayload with the version written out instead of read from the package
VersionPayloadHardcoded ==
    [version |-> "0.1.0", name |-> "software-factory-api", environment |-> "development"]

\* the dict get_version returns
VersionPayload ==
    [version |-> pkg_version, name |-> "software-factory-api", environment |-> "development"]

\* HelloWorldMessage greeting the name most recently bound by hello_name
HelloWorldMessageLastName ==
    IF \E q \in Slots : request[q].bound
    THEN FormatGreeting(request[CHOOSE q \in Slots : request[q].bound].name)
    ELSE FormatGreeting(<<"W", "o", "r", "l", "d">>)

\* the message hello_world returns
HelloWorldMessage ==
    <<"H", "e", "l", "l", "o", ",", " ", "W", "o", "r", "l", "d", "!", " ", "W", "e", "l", "c",
      "o", "m", "e", " ", "t", "o", " ", "y", "o", "u", "r", " ", "S", "o", "f", "t", "w", "a",
      "r", "e", " ", "F", "a", "c", "t", "o", "r", "y", ".">>

\* the dict hello_world returns
HelloWorldPayload(t) == [message |-> HelloWorldMessage, timestamp |-> IsoFormat(t)]

\* BoundRequest kept in one module-level variable shared by all coroutines
BoundRequestShared(r) == request[CHOOSE q \in Slots : pc[q] = "bound"]

\* the `request` parameter that slot r's hello_name coroutine sees
BoundRequest(r) == request[r]

\* the dict hello_name returns
HelloNamePayload(model, t) == [message |-> FormatGreeting(model.name), timestamp |-> IsoFormat(t)]

\* a 200 response carrying a handler's return value, as it leaves the
\* CORS middleware
OkResponse(rq, payload) == [status |-> 200, body |-> payload, cors |-> SimpleCorsHeaders(rq)]

\* the response that reports a request-validation failure
ValidationErrorResponse(rq, error) ==
    [status |-> ValidationErrorStatus(error),
     body |-> [detail |-> error],
     cors |-> SimpleCorsHeaders(rq)]

IsRoute(rq, method, path) == rq.method = method /\ rq.path = path

----------------------------------------------------------------------------
(* Startup *)

Init ==
    /\ pkg_version \in Versions
    /\ app = CreateApp(pkg_version)
    /\ pc = [r \in Slots |-> "idle"]
    /\ req = [r \in Slots |-> NoRequest]
    /\ request = [r \in Slots |-> NoModel]
    /\ resp = [r \in Slots |-> NoResponse]

----------------------------------------------------------------------------
(* Steps of a request *)

\* the server accepts request rq on free slot r
Receive(r, rq) ==
    /\ pc[r] = "idle"
    /\ pc' = [pc EXCEPT ![r] = "received"]
    /\ req' = [req EXCEPT ![r] = rq]
    /\ UNCHANGED <<pkg_version, app, request, resp>>

\* CORSMiddleware answers a preflight request itself
cors_preflight(r) ==
    /\ pc[r] = "received"
    /\ req[r].method = "OPTIONS"
    /\ req[r].origin # NoOrigin
    /\ req[r].acr_method # "none"
    /\ resp' = [resp EXCEPT ![r] = PreflightResponse(req[r])]
    /\ pc' = [pc EXCEPT ![r] = "responded"]
    /\ UNCHANGED <<pkg_version, app, req, request>>

\* POST /api/hello: the body is bound to hello_name's parameter, or the
\* request is rejected before the handler runs
bind_body(r) ==
    /\ pc[r] = "received"
    /\ IsRoute(req[r], "POST", "/api/hello")
    /\ LET v == ValidateHelloRequest(req[r].body)
       IN  IF v.bound
           THEN /\ request' = [request EXCEPT ![r] = v]
                /\ pc' = [pc EXCEPT ![r] = "bound"]
                /\ UNCHANGED resp
           ELSE /\ resp' = [resp EXCEPT ![r] = ValidationErrorResponse(req[r], v.error)]
                /\ pc' = [pc EXCEPT ![r] = "responded"]
                /\ UNCHANGED request
    /\ UNCHANGED <<pkg_version, app, req>>

\* GET /health
health_check(r) ==
    /\ pc[r] = "received"
    /\ IsRoute(req[r], "GET", "/health")
    /\ \E t \in 0..MaxClock :
          resp' = [resp EXCEPT ![r] = OkResponse(req[r], HealthPayload(t))]
    /\ pc' = [pc EXCEPT ![r] = "responded"]
    /\ UNCHANGED <<pkg_version, app, req, request>>

\* GET /api/version
get_version(r) ==
    /\ pc[r] = "received"
    /\ IsRoute(req[r], "GET", "/api/version")
    /\ resp' = [resp EXCEPT ![r] = OkResponse(req[r], VersionPayload)]
    /\ pc' = [pc EXCEPT ![r] = "responded"]
    /\ UNCHANGED <<pkg_version, app, req, request>>

\* GET /api/hello
hello_world(r) ==
    /\ pc[r] = "received"
    /\ IsRoute(req[r], "GET", "/api/hello")
    /\ \E t \in 0..MaxClock :
          resp' = [resp EXCEPT ![r] = OkResponse(req[r], HelloWorldPayload(t))]
    /\ pc' = [pc EXCEPT ![r] = "responded"]
    /\ UNCHANGED <<pkg_version, app, req, request>>

\* POST /api/hello, with the body bound
hello_name(r) ==
    /\ pc[r] = "bound"
    /\ \E t \in 0..MaxClock :
          resp' = [resp EXCEPT ![r] = OkResponse(req[r], HelloNamePayload(BoundRequest(r), t))]
    /\ pc' = [pc EXCEPT ![r] = "responded"]
    /\ UNCHANGED <<pkg_version, app, req, request>>

\* the response is written to the client and the request's state is dropped
Send(r) ==
    /\ pc[r] = "responded"
    /\ pc' = [pc EXCEPT ![r] = "idle"]
    /\ req' = [req EXCEPT ![r] = NoRequest]
    /\ request' = [request EXCEPT ![r] = NoModel]
    /\ resp' = [resp EXCEPT ![r] = NoResponse]
    /\ UNCHANGED <<pkg_version, app>>

----------------------------------------------------------------------------
(* Specifications *)

\* Concurrent service of the four routes; clients send no Origin header.
Next ==
    \E r \in Slots :
        \/ \E rq \in RouteRequests({NoOrigin}) : Receive(r, rq)
        \/ bind_body(r)
        \/ health_check(r)
        \/ get_version(r)
        \/ hello_world(r)
        \/ hello_name(r)
        \/ Send(r)

Spec == Init /\ [][Next]_vars

\* One connection at a time; browsers send Origin headers and preflights.
NextCors ==
    \/ \E rq \in RouteRequests(Origins) : Receive(1, rq)
    \/ \E rq \in PreflightRequests : Receive(1, rq)
    \/ cors_preflight(1)
    \/ bind_body(1)
    \/ health_check(1)
    \/ get_version(1)
    \/ hello_world(1)
    \/ hello_name(1)
    \/ Send(1)

SpecCors == Init /\ [][NextCors]_vars

----------------------------------------------------------------------------
(* Properties *)

Responded(r) == pc[r] = "responded"

IsPostHello(rq) == rq.method = "POST" /\ rq.path = "/api/hello"

HasName(body) == body.kind = "object" /\ "name" \in DOMAIN body.fields

HasStringName(body) == HasName(body) /\ body.fields["name"].type = "string"

NameOf(body) == body.fields["name"].chars

ExpectedGreeting(N) ==
    <<"H", "e", "l", "l", "o", ",", " ">> \o N
    \o <<"!", " ", "W", "e", "l", "c", "o", "m", "e", " ", "t", "o", " ", "y", "o", "u", "r",
         " ", "S", "o", "f", "t", "w", "a", "r", "e", " ", "F", "a", "c", "t", "o", "r", "y", ".">>

\* C1: every POST /api/hello whose body is a JSON object with a string name N
\* is answered 200 with message exactly "Hello, " + N + "! Welcome to your
\* Software Factory.", so N appears in the message verbatim.
C1_GreetingVerbatim ==
    \A r \in Slots :
        (Responded(r) /\ IsPostHello(req[r]) /\ HasStringName(req[r].body))
        => /\ resp[r].status = 200
           /\ resp[r].body.message = ExpectedGreeting(NameOf(req[r].body))
           /\ Contains(resp[r].body.message, NameOf(req[r].body))

\* a name with punctuation has been greeted
C1_Witness ==
    \E r \in Slots :
        /\ Responded(r) /\ IsPostHello(req[r]) /\ HasStringName(req[r].body)
        /\ NameOf(req[r].body) = <<"B", "!">>
        /\ resp[r].status = 200

\* C2: a POST /api/hello whose JSON object has no name field is answered 422,
\* the handler never runs for it and no greeting message is produced.
C2_MissingNameRejected ==
    \A r \in Slots :
        (pc[r] \in {"bound", "responded"} /\ IsPostHello(req[r])
           /\ req[r].body.kind = "object" /\ ~HasName(req[r].body))
        => /\ Responded(r)
           /\ resp[r].status = 422
           /\ "message" \notin DOMAIN resp[r].body

\* the empty object has been answered
C2_Witness ==
    \E r \in Slots :
        /\ Responded(r) /\ IsPostHello(req[r])
        /\ req[r].body = [kind |-> "object", fields |-> <<>>]
        /\ resp[r].status = 422

C4_HealthAlwaysHealthy ==
    \A r \in Slots :
        (Responded(r) /\ IsRoute(req[r], "GET", "/health"))
        => /\ resp[r].status = 200
           /\ resp[r].body.status = "healthy"
           /\ Len(resp[r].body.timestamp) > 0

\* a health check answered while a rejected request is still in flight
C4_Witness ==
    \E r, q \in Slots :
        /\ Responded(q) /\ resp[q].status = 422
        /\ Responded(r) /\ IsRoute(req[r], "GET", "/health") /\ resp[r].status = 200

\* C5: every GET /api/version is answered 200 with the package's declared
\* version (the value the application object is configured with), name
\* "software-factory-api" and an environment field.
C5_VersionMatchesPackage ==
    \A r \in Slots :
        (Responded(r) /\ IsRoute(req[r], "GET", "/api/version"))
        => /\ resp[r].status = 200
           /\ resp[r].body.version = pkg_version
           /\ resp[r].body.version = app.version
           /\ resp[r].body.name = "software-factory-api"
           /\ "environment" \in DOMAIN resp[r].body

\* the version has been served by a package that declares 1.0.0
C5_Witness ==
    \E r \in Slots :
        /\ Responded(r) /\ IsRoute(req[r], "GET", "/api/version")
        /\ pkg_version = "1.0.0" /\ resp[r].status = 200

\* C6: every GET /api/hello is answered 200 with message exactly "Hello,
\* World! Welcome to your Software Factory." and a timestamp, whatever names
\* other requests carry.
C6_HelloWorldFixed ==
    \A r \in Slots :
        (Responded(r) /\ IsRoute(req[r], "GET", "/api/hello"))
        => /\ resp[r].status = 200
           /\ resp[r].body.message = ExpectedGreeting(<<"W", "o", "r", "l", "d">>)
           /\ Contains(resp[r].body.message, <<"H", "e", "l", "l", "o">>)
           /\ Contains(resp[r].body.message, <<"W", "o", "r", "l", "d">>)
           /\ "timestamp" \in DOMAIN resp[r].body

\* the static greeting served next to a personalised one
C6_Witness ==
    \E r, q \in Slots :
        /\ Responded(q) /\ IsPostHello(req[q]) /\ resp[q].status = 200
        /\ NameOf(req[q].body) = <<"B">>
        /\ Responded(r) /\ IsRoute(req[r], "GET", "/api/hello") /\ resp[r].status = 200

SoloResponse(rq, t) ==
    IF IsRoute(rq, "GET", "/health") THEN OkResponse(rq, HealthPayload(t))
    ELSE IF IsRoute(rq, "GET", "/api/version") THEN OkResponse(rq, VersionPayload)
    ELSE IF IsRoute(rq, "GET", "/api/hello") THEN OkResponse(rq, HelloWorldPayload(t))
    ELSE LET v == ValidateHelloRequest(rq.body)
         IN  IF v.bound THEN OkResponse(rq, HelloNamePayload(v, t))
             ELSE ValidationErrorResponse(rq, v.error)

\* C8: under any interleaving of concurrently handled requests, each response
\* equals, up to its timestamp, the response the request would get if it were
\* the only one served, and each handler's parameter is its own request's body.
C8_RequestsIndependent ==
    \A r \in Slots :
        /\ (pc[r] = "bound" /\ req[r].method \in {"GET", "POST"})
              => request[r] = ValidateHelloRequest(req[r].body)
        /\ (Responded(r) /\ req[r].method \in {"GET", "POST"})
              => \E t \in 0..MaxClock : resp[r] = SoloResponse(req[r], t)

\* one greeting answered while another name is bound and waiting
C8_Witness ==
    \E r, q \in Slots :
        /\ pc[q] = "bound" /\ request[q].name = <<"B">>
        /\ Responded(r) /\ IsPostHello(req[r]) /\ resp[r].status = 200
        /\ NameOf(req[r].body) = <<"!">>

\* C9 as stated: a body that contains a name is always accepted, and a POST
\* whose body is a JSON object is rejected only when name is absent.
C9_PresenceOnly ==
    \A r \in Slots :
        (Responded(r) /\ IsPostHello(req[r]) /\ req[r].body.kind = "object")
        => /\ HasName(req[r].body) => resp[r].status = 200
           /\ resp[r].status # 200 => ~HasName(req[r].body)

\* C9, amended: a body whose name is a string is accepted with 200 whatever
\* the name's length or characters, including the empty string, and a POST
\* whose body is a JSON object is rejected only when name is absent or is not
\* a string.
C9_StringNameAccepted ==
    \A r \in Slots :
        (pc[r] \in {"bound", "responded"} /\ IsPostHello(req[r]) /\ req[r].body.kind = "object")
        => /\ HasStringName(req[r].body) => (Responded(r) => resp[r].status = 200)
           /\ (Responded(r) /\ resp[r].status # 200) =>
                 (~HasName(req[r].body) \/ req[r].body.fields["name"].type # "string")
           /\ pc[r] = "bound" => HasStringName(req[r].body)

\* the empty name and a name of full length have both been accepted
C9_Witness ==
    \E r, q \in Slots :
        /\ Responded(r) /\ IsPostHello(req[r]) /\ HasStringName(req[r].body)
        /\ NameOf(req[r].body) = <<>> /\ resp[r].status = 200
        /\ Responded(q) /\ IsPostHello(req[q]) /\ HasStringName(req[q].body)
        /\ Len(NameOf(req[q].body)) = MaxNameLen /\ resp[q].status = 200

====
